---- MODULE Spec2Model ----
(***************************************************************************)
(* Model of the sports-numerology engine (backend/numerology.py).          *)
(*                                                                         *)
(* A Python str is a sequence of Unicode code points, so that formatting,  *)
(* parsing, stripping and normalisation are computed, not assumed.         *)
(***************************************************************************)
EXTENDS Integers, Sequences, FiniteSets, TLC

(* ------------------------------------------------------------------ *)
(* Code points used by the model                                        *)
(* ------------------------------------------------------------------ *)
HYPHEN == 45
SPACE == 32
TAB == 9
NBSP == 160
SHARP_S == 223
E_ACUTE == 233
S_CARON == 353
COMBINING_ACUTE == 769
COMBINING_CARON == 780

UpperLetters == 65..90
LowerLetters == 97..122
Digits == 48..57

(* str.isspace() / the regex class \s on the code points above:         *)
(* the ASCII whitespace 09-0D, 1C-1F, 20 and the no-break space.        *)
IsSpace(c) == c \in (9..13) \cup (28..32) \cup {NBSP}

IsAsciiLetter(c) == c \in UpperLetters \cup LowerLetters

IsDigit(c) == c \in Digits

(* ------------------------------------------------------------------ *)
(* Python built-ins                                                     *)
(* ------------------------------------------------------------------ *)

(* sum(int(d) for d in str(total)), total >= 0 *)
RECURSIVE DigitSum(_)
DigitSum(total) ==
    IF total < 10 THEN total ELSE (total % 10) + DigitSum(total \div 10)

RECURSIVE SumSeq(_)
SumSeq(s) == IF s = <<>> THEN 0 ELSE Head(s) + SumSeq(Tail(s))

RECURSIVE Concat(_)
Concat(ss) == IF ss = <<>> THEN <<>> ELSE Head(ss) \o Concat(Tail(ss))

RECURSIVE LStrip(_)
LStrip(s) ==
    IF s = <<>> THEN s
    ELSE IF IsSpace(Head(s)) THEN LStrip(Tail(s)) ELSE s

RECURSIVE RStrip(_)
RStrip(s) ==
    IF s = <<>> THEN s
    ELSE IF IsSpace(s[Len(s)]) THEN RStrip(SubSeq(s, 1, Len(s) - 1)) ELSE s

(* str.strip() *)
Strip(s) == RStrip(LStrip(s))

(* str.split(sep) for a one-character separator *)
RECURSIVE SplitAcc(_, _, _)
SplitAcc(s, sep, cur) ==
    IF s = <<>> THEN <<cur>>
    ELSE IF Head(s) = sep THEN <<cur>> \o SplitAcc(Tail(s), sep, <<>>)
    ELSE SplitAcc(Tail(s), sep, Append(cur, Head(s)))

Split(s, sep) == SplitAcc(s, sep, <<>>)

(* the value of a string of decimal digits *)
RECURSIVE DigitsValue(_)
DigitsValue(s) ==
    IF s = <<>> THEN 0
    ELSE 10 * DigitsValue(SubSeq(s, 1, Len(s) - 1)) + (s[Len(s)] - 48)

(* the literal int(s) reads: whitespace around it is dropped and one sign *)
(* may come first                                                        *)
IntBody(s) ==
    LET t == Strip(s)
    IN  IF t # <<>> /\ Head(t) \in {43, HYPHEN} THEN Tail(t) ELSE t

(* int(s) raises ValueError unless s holds digits after that *)
PyIntOk(s) == IntBody(s) # <<>> /\ \A i \in 1..Len(IntBody(s)) : IsDigit(IntBody(s)[i])

(* int(s) *)
PyInt(s) ==
    LET t == Strip(s)
    IN  IF t # <<>> /\ Head(t) = HYPHEN
        THEN 0 - DigitsValue(IntBody(s)) ELSE DigitsValue(IntBody(s))

(* str(n) zero-padded to width w, as the caller writes YYYY, MM and DD *)
RECURSIVE ZeroPad(_, _)
ZeroPad(n, w) ==
    IF w = 0 THEN <<>> ELSE Append(ZeroPad(n \div 10, w - 1), 48 + (n % 10))

(* unicodedata.normalize("NFKD", c) for one code point of the model *)
NFKD1(c) ==
    CASE c = E_ACUTE -> <<101, COMBINING_ACUTE>>
      [] c = S_CARON -> <<115, COMBINING_CARON>>
      [] c = NBSP    -> <<SPACE>>
      [] OTHER       -> <<c>>

NFKD(s) == Concat([i \in 1..Len(s) |-> NFKD1(s[i])])

(* s.encode("ascii", "ignore").decode("ascii") *)
AsciiIgnore(s) == SelectSeq(s, LAMBDA c : c < 128)

(* re.sub(r"[^A-Za-z\s]", " ", s) *)
SubNonLetters(s) ==
    [i \in 1..Len(s) |-> IF IsAsciiLetter(s[i]) \/ IsSpace(s[i]) THEN s[i] ELSE SPACE]

(* re.sub(r"\s+", " ", s) *)
RECURSIVE CollapseSpaces(_)
CollapseSpaces(s) ==
    IF s = <<>> THEN <<>>
    ELSE IF IsSpace(Head(s)) THEN <<SPACE>> \o CollapseSpaces(LStrip(Tail(s)))
    ELSE <<Head(s)>> \o CollapseSpaces(Tail(s))

(* c.upper() for the characters left after normalisation *)
Upper(c) == IF c \in LowerLetters THEN c - 32 ELSE c

(* ------------------------------------------------------------------ *)
(* NORMALIZATION                                                        *)
(* ------------------------------------------------------------------ *)
(* mutant: strip() is applied before the substitutions, not after them *)
normalize_name_strip_first(name) ==
    IF name = <<>> THEN <<>>
    ELSE CollapseSpaces(SubNonLetters(Strip(AsciiIgnore(NFKD(name)))))

(* mutant: runs of whitespace are not collapsed *)
normalize_name_no_collapse(name) ==
    IF name = <<>> THEN <<>>
    ELSE Strip(SubNonLetters(AsciiIgnore(NFKD(name))))

normalize_name(name) ==
    IF name = <<>> THEN <<>>
    ELSE Strip(CollapseSpaces(SubNonLetters(AsciiIgnore(NFKD(name)))))

(* ------------------------------------------------------------------ *)
(* DATE / CYCLES                                                        *)
(* ------------------------------------------------------------------ *)
(* mutant: the loop does not stop at 11, 22 and 33 *)
RECURSIVE life_path_reduce_plain(_)
life_path_reduce_plain(total) ==
    IF total > 9 THEN life_path_reduce_plain(DigitSum(total)) ELSE total

RECURSIVE life_path_reduce(_)
life_path_reduce(total) ==
    IF total > 9 /\ total \notin {11, 22, 33}
    THEN life_path_reduce(DigitSum(total)) ELSE total

(* mutant: the digits are taken from the first eight characters, as if the
   birthdate were written YYYYMMDD *)
calculate_life_path_first8(birthdate) ==
    LET digits == SelectSeq(SubSeq(birthdate, 1, 8), IsDigit)
        total  == SumSeq([i \in 1..Len(digits) |-> digits[i] - 48])
    IN  life_path_reduce(total)

calculate_life_path(birthdate) ==
    LET digits == SelectSeq(birthdate, IsDigit)
        total  == SumSeq([i \in 1..Len(digits) |-> digits[i] - 48])
    IN  life_path_reduce(total)

(* mutant: the loop stops at 11, 22 and 33 *)
RECURSIVE personal_year_reduce_master(_)
personal_year_reduce_master(total) ==
    IF total > 9 /\ total \notin {11, 22, 33}
    THEN personal_year_reduce_master(DigitSum(total)) ELSE total

RECURSIVE personal_year_reduce(_)
personal_year_reduce(total) ==
    IF total > 9 THEN personal_year_reduce(DigitSum(total)) ELSE total

(* mutant: the day of birth is left out of the total *)
calculate_personal_year_no_day(birthdate, year) ==
    LET month == PyInt(Split(birthdate, HYPHEN)[2])
        total == month + DigitSum(year)
    IN  personal_year_reduce(total)

calculate_personal_year(birthdate, year) ==
    LET month == PyInt(Split(birthdate, HYPHEN)[2])
        day   == PyInt(Split(birthdate, HYPHEN)[3])
        total == month + day + DigitSum(year)
    IN  personal_year_reduce(total)

(* calculate_personal_year raises IndexError when the birthdate has fewer *)
(* than three '-' separated parts and ValueError when int() rejects the   *)
(* second or the third part                                              *)
calculate_personal_year_raises(birthdate) ==
    LET parts == Split(birthdate, HYPHEN)
    IN  Len(parts) < 3 \/ ~PyIntOk(parts[2]) \/ ~PyIntOk(parts[3])

(* mutant: the loop stops at 11, 22 and 33 *)
RECURSIVE personal_day_reduce_master(_)
personal_day_reduce_master(total) ==
    IF total > 9 /\ total \notin {11, 22, 33}
    THEN personal_day_reduce_master(DigitSum(total)) ELSE total

RECURSIVE personal_day_reduce(_)
personal_day_reduce(total) ==
    IF total > 9 THEN personal_day_reduce(DigitSum(total)) ELSE total

calculate_personal_day(birthdate, date) ==
    LET py      == calculate_personal_year(birthdate, date.year)
        month   == date.month
        day_num == date.day
        total   == py + month + day_num
    IN  personal_day_reduce(total)

(* mutant: the loop stops at 11, 22 and 33 *)
RECURSIVE universal_year_reduce_master(_)
universal_year_reduce_master(total) ==
    IF total > 9 /\ total \notin {11, 22, 33}
    THEN universal_year_reduce_master(DigitSum(total)) ELSE total

RECURSIVE universal_year_reduce(_)
universal_year_reduce(total) ==
    IF total > 9 THEN universal_year_reduce(DigitSum(total)) ELSE total

calculate_universal_year(year) ==
    LET total == DigitSum(year)
    IN  universal_year_reduce(total)

RECURSIVE universal_month_reduce(_)
universal_month_reduce(total) ==
    IF total > 9 THEN universal_month_reduce(DigitSum(total)) ELSE total

calculate_universal_month(year, month) ==
    LET uy    == calculate_universal_year(year)
        total == uy + month
    IN  universal_month_reduce(total)

RECURSIVE universal_day_reduce(_)
universal_day_reduce(total) ==
    IF total > 9 THEN universal_day_reduce(DigitSum(total)) ELSE total

calculate_universal_day(year, month, day) ==
    LET um    == calculate_universal_month(year, month)
        total == um + day
    IN  universal_day_reduce(total)

(* ------------------------------------------------------------------ *)
(* NAME NUMEROLOGY                                                      *)
(* ------------------------------------------------------------------ *)

(* The Pythagorean chart, keyed by the code points of 'A'..'Z' *)
chart ==
    [c \in UpperLetters |->
        <<1, 2, 3, 4, 5, 6, 7, 8, 9,
          1, 2, 3, 4, 5, 6, 7, 8, 9,
          1, 2, 3, 4, 5, 6, 7, 8>>[c - 64]]

(* mutant: the letter is looked up without upper() *)
chart_get_case_sensitive(c) == IF c \in DOMAIN chart THEN chart[c] ELSE 0

(* chart.get(c.upper(), 0) *)
chart_get(c) == IF Upper(c) \in DOMAIN chart THEN chart[Upper(c)] ELSE 0

(* c.isalpha() on the code points of the model *)
IsAlpha(c) == IsAsciiLetter(c) \/ c \in {SHARP_S, E_ACUTE, S_CARON}

(* mutant: a total of 0 is reduced to 9 *)
RECURSIVE name_to_number_reduce_nonzero(_)
name_to_number_reduce_nonzero(total) ==
    IF total = 0 THEN 9
    ELSE IF total > 9 /\ total \notin {11, 22, 33}
    THEN name_to_number_reduce_nonzero(DigitSum(total)) ELSE total

RECURSIVE name_to_number_reduce(_)
name_to_number_reduce(total) ==
    IF total > 9 /\ total \notin {11, 22, 33}
    THEN name_to_number_reduce(DigitSum(total)) ELSE total

name_to_number(raw) ==
    LET name    == normalize_name(raw)
        letters == SelectSeq(name, IsAlpha)
        total   == SumSeq([i \in 1..Len(letters) |-> chart_get(letters[i])])
    IN  name_to_number_reduce(total)

get_harmonious_groups == <<{1, 3, 5, 7, 9}, {2, 4, 6, 8}>>

(* mutant: a number is not compatible with itself *)
numbers_compatible_distinct(n1, n2) ==
    LET groups == get_harmonious_groups
    IN  n1 # n2 /\ \E g \in 1..Len(groups) : n1 \in groups[g] /\ n2 \in groups[g]

(* mutant: a number above 9 is looked up by the sum of its digits *)
numbers_compatible_reduced(n1, n2) ==
    LET groups == get_harmonious_groups
        r1     == IF n1 > 9 THEN DigitSum(n1) ELSE n1
        r2     == IF n2 > 9 THEN DigitSum(n2) ELSE n2
    IN  \E g \in 1..Len(groups) : r1 \in groups[g] /\ r2 \in groups[g]

numbers_compatible(n1, n2) ==
    LET groups == get_harmonious_groups
    IN  \E g \in 1..Len(groups) : n1 \in groups[g] /\ n2 \in groups[g]

(* ------------------------------------------------------------------ *)
(* SCORING                                                              *)
(* ------------------------------------------------------------------ *)

(* One f-string reason: its text with the two embedded values and the   *)
(* weight written in it.                                                *)
Reason(fmt, a, b, w) == [fmt |-> fmt, a |-> a, b |-> b, weight |-> w]

(* mutant: the reason is put first instead of appended *)
Fire_prepend(acc, cond, w, reason) ==
    IF cond
    THEN [score |-> acc.score + w, reasons |-> <<reason>> \o acc.reasons]
    ELSE acc

(* mutant: a rule of weight 5 adds 6 to the score *)
Fire_overweight(acc, cond, w, reason) ==
    IF cond
    THEN [score   |-> acc.score + (IF w = 5 THEN 6 ELSE w),
          reasons |-> Append(acc.reasons, reason)]
    ELSE acc

(* "if cond: score += w; reasons.append(reason)" on the accumulator acc *)
Fire(acc, cond, w, reason) ==
    IF cond
    THEN [score |-> acc.score + w, reasons |-> Append(acc.reasons, reason)]
    ELSE acc

calculate_match_score(athlete_profile, match_date) ==
    LET uy == calculate_universal_year(match_date.year)
        um == calculate_universal_month(match_date.year, match_date.month)
        ud == calculate_universal_day(match_date.year, match_date.month, match_date.day)
        py == calculate_personal_year(athlete_profile.birthdate, match_date.year)
        pd == calculate_personal_day(athlete_profile.birthdate, match_date)
        lp == athlete_profile.life_path
        ex == athlete_profile.expression
        s0 == [score |-> 0, reasons |-> <<>>]
        s1 == Fire(s0, lp = uy, 10,
                   Reason("Life Path {} matches Universal Year {} (+{})", lp, uy, 10))
        s2 == Fire(s1, py = uy, 10,
                   Reason("Personal Year {} matches Universal Year {} (+{})", py, uy, 10))
        s3 == Fire(s2, pd = ud, 5,
                   Reason("Personal Day {} matches Universal Day {} (+{})", pd, ud, 5))
        s4 == Fire(s3, ex = um, 5,
                   Reason("Expression {} matches Universal Month {} (+{})", ex, um, 5))
        s5 == Fire(s4, numbers_compatible(lp, uy), 3,
                   Reason("Life Path {} harmonizes with Universal Year {} (+{})", lp, uy, 3))
        s6 == Fire(s5, numbers_compatible(py, uy), 3,
                   Reason("Personal Year {} harmonizes with Universal Year {} (+{})", py, uy, 3))
    IN  s6

(* ------------------------------------------------------------------ *)
(* datetime.strptime(s, '%Y-%m-%d')                                     *)
(* ------------------------------------------------------------------ *)
IsLeap(y) == (y % 4 = 0 /\ y % 100 # 0) \/ y % 400 = 0

DaysInMonth(y, m) ==
    CASE m \in {1, 3, 5, 7, 8, 10, 12} -> 31
      [] m \in {4, 6, 9, 11}           -> 30
      [] OTHER                         -> IF IsLeap(y) THEN 29 ELSE 28

AllDigits(s) == \A i \in 1..Len(s) : IsDigit(s[i])

(* %Y is exactly four digits, %m and %d one or two; the value must be a  *)
(* calendar date of the years 1..9999, otherwise ValueError (ok = FALSE) *)
strptime(s) ==
    LET parts == Split(s, HYPHEN)
        shape == /\ Len(parts) = 3
                 /\ Len(parts[1]) = 4 /\ AllDigits(parts[1])
                 /\ Len(parts[2]) \in 1..2 /\ AllDigits(parts[2])
                 /\ Len(parts[3]) \in 1..2 /\ AllDigits(parts[3])
        y == PyInt(parts[1])
        m == PyInt(parts[2])
        d == PyInt(parts[3])
    IN  IF shape /\ y >= 1 /\ m \in 1..12 /\ d \in 1..DaysInMonth(y, m)
        THEN [ok |-> TRUE, year |-> y, month |-> m, day |-> d]
        ELSE [ok |-> FALSE, year |-> 0, month |-> 0, day |-> 0]

(* ------------------------------------------------------------------ *)
(* MAIN ANALYSIS: the blocks of analyze_match                           *)
(* ------------------------------------------------------------------ *)

(* the str "TIE" *)
TIE == <<84, 73, 69>>

(* mutant: the difference keeps its sign *)
Abs_signed(n) == n

Abs(n) == IF n < 0 THEN 0 - n ELSE n

(* An f-string: its text and the values substituted into it *)
FString(fmt, args) == [fmt |-> fmt, args |-> args]

(* mutant: the display name is the normalized name *)
keep_original_normalized(name) == normalize_name(Strip(name))

(* (player_name or "").strip(): name is a str, so "or" leaves it as it is *)
keep_original(name) == Strip(name)

build_profile(name_calc, birthdate) ==
    [name       |-> name_calc,
     birthdate  |-> birthdate,
     life_path  |-> calculate_life_path(birthdate),
     expression |-> name_to_number(name_calc)]

(* mutant: the second branch keeps the scores in the order of the players *)
pick_winner_swapped(s1, s2, name1, name2) ==
    IF s1 > s2
    THEN [winner |-> name1, winner_score |-> s1, loser_score |-> s2]
    ELSE IF s2 > s1
    THEN [winner |-> name2, winner_score |-> s1, loser_score |-> s2]
    ELSE [winner |-> TIE, winner_score |-> s1, loser_score |-> s2]

(* mutant: with equal scores player 1 is named *)
pick_winner_tie_first(s1, s2, name1, name2) ==
    IF s1 > s2
    THEN [winner |-> name1, winner_score |-> s1, loser_score |-> s2]
    ELSE IF s2 > s1
    THEN [winner |-> name2, winner_score |-> s2, loser_score |-> s1]
    ELSE [winner |-> name1, winner_score |-> s1, loser_score |-> s2]

(* mutant: the second branch names player 1 *)
pick_winner_first(s1, s2, name1, name2) ==
    IF s1 > s2
    THEN [winner |-> name1, winner_score |-> s1, loser_score |-> s2]
    ELSE IF s2 > s1
    THEN [winner |-> name1, winner_score |-> s2, loser_score |-> s1]
    ELSE [winner |-> TIE, winner_score |-> s1, loser_score |-> s2]

(* mutant: the first comparison is >= *)
pick_winner_ge(s1, s2, name1, name2) ==
    IF s1 >= s2
    THEN [winner |-> name1, winner_score |-> s1, loser_score |-> s2]
    ELSE IF s2 > s1
    THEN [winner |-> name2, winner_score |-> s2, loser_score |-> s1]
    ELSE [winner |-> TIE, winner_score |-> s1, loser_score |-> s2]

(* if score1 > score2 / elif score2 > score1 / else *)
pick_winner(s1, s2, name1, name2) ==
    IF s1 > s2
    THEN [winner |-> name1, winner_score |-> s1, loser_score |-> s2]
    ELSE IF s2 > s1
    THEN [winner |-> name2, winner_score |-> s2, loser_score |-> s1]
    ELSE [winner |-> TIE, winner_score |-> s1, loser_score |-> s2]

(* mutant: both thresholds are compared with > *)
pick_tier_strict(diff, winner) ==
    IF diff > 20
    THEN [confidence     |-> "STRONG",
          recommendation |-> FString("Strong bet on {}", <<winner>>),
          bet_size       |-> "3-5% of bankroll"]
    ELSE IF diff > 10
    THEN [confidence     |-> "MODERATE",
          recommendation |-> FString("Moderate bet on {}", <<winner>>),
          bet_size       |-> "1-2% of bankroll"]
    ELSE [confidence     |-> "LOW",
          recommendation |-> FString("Avoid / No bet", <<>>),
          bet_size       |-> "Skip this match"]

(* if diff >= 20 / elif diff >= 10 / else *)
pick_tier(diff, winner) ==
    IF diff >= 20
    THEN [confidence     |-> "STRONG",
          recommendation |-> FString("Strong bet on {}", <<winner>>),
          bet_size       |-> "3-5% of bankroll"]
    ELSE IF diff >= 10
    THEN [confidence     |-> "MODERATE",
          recommendation |-> FString("Moderate bet on {}", <<winner>>),
          bet_size       |-> "1-2% of bankroll"]
    ELSE [confidence     |-> "LOW",
          recommendation |-> FString("Avoid / No bet", <<>>),
          bet_size       |-> "Skip this match"]

player_block(name_original, profile, birthdate, year, score, reasons) ==
    [name          |-> name_original,
     life_path     |-> profile.life_path,
     expression    |-> profile.expression,
     personal_year |-> calculate_personal_year(birthdate, year),
     score         |-> score,
     reasons       |-> reasons]

(* ------------------------------------------------------------------ *)
(* State: one call of analyze_match, its arguments and its locals       *)
(* ------------------------------------------------------------------ *)
VARIABLES
    pc,                      \* position in analyze_match
    player1_name, player1_birthdate,
    player2_name, player2_birthdate,
    match_date_str,          \* the arguments
    match_date,
    player1_name_original, player2_name_original,
    player1, player2,
    score1, reasons1, score2, reasons2,
    result,                  \* the returned dict
    call, ret,               \* a direct call of one calculator function
    now,                     \* datetime.utcnow(), in ticks
    demo_usage,              \* the demo_usage table, keyed by client_ip
    demo_log,                \* the demo request handled last, with its response
    demo_allowed,            \* per client_ip, the requests allowed in its window
    plan_tier,               \* user.plan_tier
    usage_logs,              \* the usage_logs rows of the user, counted by kind
    worker,                  \* the requests of the user being served at once
    loop_total,              \* the variable total of a reduction loop
    users,                   \* the users table, keyed by id
    user_ip_claims,          \* the user_ip_claims rows
    api_keys                 \* the api_keys table, keyed by id

args == <<player1_name, player1_birthdate, player2_name, player2_birthdate,
          match_date_str>>

locals == <<match_date, player1_name_original, player2_name_original,
            player1, player2, score1, reasons1, score2, reasons2>>

demo == <<now, demo_usage, demo_log, demo_allowed>>

rate == <<plan_tier, usage_logs, worker>>

keys == <<users, user_ip_claims, api_keys>>

web == <<demo, rate, loop_total, keys>>

vars == <<pc, args, locals, result, call, ret, web>>

(* a local that is not bound yet *)
None == "None"

(* no authenticated request is part of the behaviour *)
NoKeys ==
    /\ users = None
    /\ user_ip_claims = None
    /\ api_keys = None

NoRate ==
    /\ plan_tier = None
    /\ usage_logs = None
    /\ worker = None

(* no web request is part of the behaviour *)
NoWeb ==
    /\ now = None
    /\ demo_usage = None
    /\ demo_log = None
    /\ demo_allowed = None
    /\ NoRate
    /\ loop_total = None
    /\ NoKeys

(* ------------------------------------------------------------------ *)
(* The arguments the model calls analyze_match with                     *)
(* ------------------------------------------------------------------ *)
MaxBirthMonth == 7
MaxBirthDay == 21
MaxMatchMonth == 8
MaxMatchDay == 5

(* the caller's "YYYY-MM-DD" *)
ISO(y, m, d) ==
    ZeroPad(y, 4) \o <<HYPHEN>> \o ZeroPad(m, 2) \o <<HYPHEN>> \o ZeroPad(d, 2)

ValidYMD(years, months, days) ==
    { x \in years \X months \X days : x[3] <= DaysInMonth(x[1], x[2]) }

BirthDates ==
    { ISO(d[1], d[2], d[3]) : d \in ValidYMD(1987..1988, 6..MaxBirthMonth, 19..MaxBirthDay) }

MatchDates ==
    { ISO(d[1], d[2], d[3]) : d \in ValidYMD({2024}, 7..MaxMatchMonth, 4..MaxMatchDay) }

(* "JOHN", "TIE" and " Vaško\t" *)
SampleNames ==
    { <<74, 79, 72, 78>>,
      TIE,
      <<SPACE, 86, 97, S_CARON, 107, 111, TAB>> }

Init ==
    /\ pc = "start"
    /\ player1_name \in SampleNames
    /\ player1_birthdate \in BirthDates
    /\ player2_name \in SampleNames
    /\ player2_birthdate \in BirthDates
    /\ match_date_str \in MatchDates
    /\ match_date = None
    /\ player1_name_original = None
    /\ player2_name_original = None
    /\ player1 = None
    /\ player2 = None
    /\ score1 = None
    /\ reasons1 = None
    /\ score2 = None
    /\ reasons2 = None
    /\ result = None
    /\ call = None
    /\ ret = None
    /\ NoWeb

(* match_date = datetime.strptime(match_date_str, '%Y-%m-%d') *)
ParseMatchDate ==
    /\ pc = "start"
    /\ LET md == strptime(match_date_str)
       IN  IF md.ok
           THEN match_date' = md /\ pc' = "parsed"
           ELSE match_date' = match_date /\ pc' = "raised"
    /\ UNCHANGED <<web, args, player1_name_original, player2_name_original,
                   player1, player2, score1, reasons1, score2, reasons2, result,
                   call, ret>>

(* keep the originals, normalize, build both profiles *)
BuildProfiles ==
    /\ pc = "parsed"
    /\ LET original1 == keep_original(player1_name)
           original2 == keep_original(player2_name)
       IN  /\ player1_name_original' = original1
           /\ player2_name_original' = original2
           /\ player1' = build_profile(normalize_name(original1), player1_birthdate)
           /\ player2' = build_profile(normalize_name(original2), player2_birthdate)
    /\ pc' = "profiled"
    /\ UNCHANGED <<web, args, match_date, score1, reasons1, score2, reasons2, result,
                   call, ret>>

(* score1, reasons1 = ...; score2, reasons2 = ... *)
(* an exception of calculate_personal_year leaves analyze_match at once    *)
CalculateScores ==
    /\ pc = "profiled"
    /\ LET r1 == calculate_match_score(player1, match_date)
           r2 == calculate_match_score(player2, match_date)
       IN  IF calculate_personal_year_raises(player1.birthdate)
           THEN /\ pc' = "raised"
                /\ UNCHANGED <<score1, reasons1, score2, reasons2>>
           ELSE IF calculate_personal_year_raises(player2.birthdate)
           THEN /\ pc' = "raised"
                /\ score1' = r1.score /\ reasons1' = r1.reasons
                /\ UNCHANGED <<score2, reasons2>>
           ELSE /\ pc' = "scored"
                /\ score1' = r1.score /\ reasons1' = r1.reasons
                /\ score2' = r2.score /\ reasons2' = r2.reasons
    /\ UNCHANGED <<web, args, match_date, player1_name_original, player2_name_original,
                   player1, player2, result, call, ret>>

(* the verdict: diff, winner, tier and the returned dict *)
ReturnVerdict ==
    /\ pc = "scored"
    /\ LET diff == Abs(score1 - score2)
           w    == pick_winner(score1, score2,
                               player1_name_original, player2_name_original)
           t    == pick_tier(diff, w.winner)
       IN  result' =
             [match_date        |-> match_date_str,
              sport             |-> "tennis",
              universal_year    |-> calculate_universal_year(match_date.year),
              universal_month   |-> calculate_universal_month(match_date.year,
                                                              match_date.month),
              universal_day     |-> calculate_universal_day(match_date.year,
                                                            match_date.month,
                                                            match_date.day),
              player1           |-> player_block(player1_name_original, player1,
                                                 player1_birthdate, match_date.year,
                                                 score1, reasons1),
              player2           |-> player_block(player2_name_original, player2,
                                                 player2_birthdate, match_date.year,
                                                 score2, reasons2),
              winner_prediction |-> w.winner,
              confidence        |-> t.confidence,
              score_difference  |-> diff,
              recommendation    |-> t.recommendation,
              bet_size          |-> t.bet_size,
              analysis_summary  |->
                  FString("{} has numerological advantage ({} vs {}) on {}",
                          <<w.winner, w.winner_score, w.loser_score, match_date_str>>)]
    /\ pc' = "returned"
    /\ UNCHANGED <<web, args, locals, call, ret>>

Next ==
    \/ ParseMatchDate
    \/ BuildProfiles
    \/ CalculateScores
    \/ ReturnVerdict

Spec == Init /\ [][Next]_vars

(* ------------------------------------------------------------------ *)
(* analyze_match called directly with strings the API layer would not   *)
(* form: dates that are not YYYY-MM-DD and names without any letter     *)
(* ------------------------------------------------------------------ *)

(* "1988-06-21", "1988-06-19", "abcd-06-21", "1988/06/21", "1988-6-21",  *)
(* "1988-13-45", "1988-06-xx" and ""                                     *)
EdgeBirthDates ==
    { ISO(1988, 6, 21),
      ISO(1988, 6, 19),
      <<97, 98, 99, 100, HYPHEN, 48, 54, HYPHEN, 50, 49>>,
      <<49, 57, 56, 56, 47, 48, 54, 47, 50, 49>>,
      <<49, 57, 56, 56, HYPHEN, 54, HYPHEN, 50, 49>>,
      ISO(1988, 13, 45),
      <<49, 57, 56, 56, HYPHEN, 48, 54, HYPHEN, 120, 120>>,
      <<>> }

(* "2024-07-04", "2024-03-04", "2024-7-4", "2024-13-45", "2024/07/04", "" *)
EdgeMatchDates ==
    { ISO(2024, 7, 4),
      ISO(2024, 3, 4),
      <<50, 48, 50, 52, HYPHEN, 55, HYPHEN, 52>>,
      ISO(2024, 13, 45),
      <<50, 48, 50, 52, 47, 48, 55, 47, 48, 52>>,
      <<>> }

(* "", " \t", "7", "ß" and "JOHN" *)
EdgeNames ==
    { <<>>,
      <<SPACE, TAB>>,
      <<55>>,
      <<SHARP_S>>,
      <<74, 79, 72, 78>> }

InitEdge ==
    /\ pc = "start"
    /\ player1_name \in EdgeNames
    /\ player1_birthdate \in EdgeBirthDates
    /\ player2_name \in EdgeNames
    /\ player2_birthdate \in EdgeBirthDates
    /\ match_date_str \in EdgeMatchDates
    /\ match_date = None
    /\ player1_name_original = None
    /\ player2_name_original = None
    /\ player1 = None
    /\ player2 = None
    /\ score1 = None
    /\ reasons1 = None
    /\ score2 = None
    /\ reasons2 = None
    /\ result = None
    /\ call = None
    /\ ret = None
    /\ NoWeb

SpecEdge == InitEdge /\ [][Next]_vars

(* ------------------------------------------------------------------ *)
(* analyze_match called twice: with two players, and then with the same *)
(* two players exchanged                                                *)
(* ------------------------------------------------------------------ *)
SwapBirthDates ==
    { ISO(d[1], d[2], d[3]) : d \in ValidYMD(1987..1988, 6..7, 19..21) }

SwapMatchDates ==
    { ISO(d[1], d[2], d[3]) : d \in ValidYMD({2024}, 7..8, 4..5) }

InitSwap ==
    /\ pc = "start"
    /\ player1_name \in SampleNames
    /\ player1_birthdate \in SwapBirthDates
    /\ player2_name \in SampleNames
    /\ player2_birthdate \in SwapBirthDates
    /\ match_date_str \in SwapMatchDates
    /\ match_date = None
    /\ player1_name_original = None /\ player2_name_original = None
    /\ player1 = None /\ player2 = None
    /\ score1 = None /\ reasons1 = None
    /\ score2 = None /\ reasons2 = None
    /\ result = None
    /\ call = None
    /\ ret = None
    /\ NoWeb

(* the first verdict is kept in ret and analyze_match is entered again with
   player 1 and player 2 exchanged, the match date being the same *)
SwapPlayers ==
    /\ pc = "returned"
    /\ call = None
    /\ ret' = result
    /\ call' = "swapped"
    /\ player1_name' = player2_name
    /\ player1_birthdate' = player2_birthdate
    /\ player2_name' = player1_name
    /\ player2_birthdate' = player1_birthdate
    /\ match_date' = None
    /\ player1_name_original' = None /\ player2_name_original' = None
    /\ player1' = None /\ player2' = None
    /\ score1' = None /\ reasons1' = None
    /\ score2' = None /\ reasons2' = None
    /\ result' = None
    /\ pc' = "start"
    /\ UNCHANGED <<web, match_date_str>>

NextSwap == Next \/ SwapPlayers

SpecSwap == InitSwap /\ [][NextSwap]_vars

(* ------------------------------------------------------------------ *)
(* Direct calls of the calculator functions, one per behaviour          *)
(* ------------------------------------------------------------------ *)
MaxSweepYear == 2030
MaxNameLen == 4

(* the years swept: a window, and the first and the last years of datetime *)
SweepYears == (1980..MaxSweepYear) \cup {1, 6999, 9999}

SweepDates == ValidYMD(SweepYears, 1..12, 1..31)

(* every letter in both cases, and the other kinds of character *)
FullAlphabet ==
    UpperLetters \cup LowerLetters
        \cup {SPACE, TAB, NBSP, HYPHEN, 55, SHARP_S, E_ACUTE, S_CARON}

(* 'I', 'r', 'F', 'D', ' ' and 'é' *)
SmallAlphabet == {73, 114, 70, 68, SPACE, E_ACUTE}

RECURSIVE StringsOver(_, _)
StringsOver(alphabet, n) ==
    IF n = 0 THEN {<<>>}
    ELSE LET shorter == StringsOver(alphabet, n - 1)
         IN  shorter \cup { Append(s, c) : s \in shorter, c \in alphabet }

SweepNames ==
    StringsOver(FullAlphabet, 1) \cup StringsOver(SmallAlphabet, MaxNameLen)
        \cup SampleNames

ScoreBirthDates == ValidYMD({1988}, 1..12, 1..31)

ScoreMatchDates == ValidYMD(2024..2025, 1..12, {4, 29})

Call(fn, name, birthdate, date) ==
    [fn |-> fn, name |-> name, birthdate |-> birthdate, date |-> date]

InitCalc ==
    /\ pc = "call"
    /\ \/ \E b \in SweepDates :
            call = Call("calculate_life_path", <<>>, ISO(b[1], b[2], b[3]), <<>>)
       \/ \E d \in SweepDates :
            call = Call("calculate_universal", <<>>, <<>>, ISO(d[1], d[2], d[3]))
       \/ \E n \in SweepNames :
            call = Call("name_to_number", n, <<>>, <<>>)
       \/ \E n \in SampleNames, b \in ScoreBirthDates, d \in ScoreMatchDates :
            call = Call("calculate_match_score", n,
                        ISO(b[1], b[2], b[3]), ISO(d[1], d[2], d[3]))
    /\ ret = None
    /\ player1_name = None
    /\ player1_birthdate = None
    /\ player2_name = None
    /\ player2_birthdate = None
    /\ match_date_str = None
    /\ match_date = None
    /\ player1_name_original = None
    /\ player2_name_original = None
    /\ player1 = None
    /\ player2 = None
    /\ score1 = None
    /\ reasons1 = None
    /\ score2 = None
    /\ reasons2 = None
    /\ result = None
    /\ NoWeb

CallLifePath ==
    /\ pc = "call"
    /\ call.fn = "calculate_life_path"
    /\ ret' = calculate_life_path(call.birthdate)
    /\ pc' = "done"
    /\ UNCHANGED <<web, args, locals, result, call>>

CallUniversal ==
    /\ pc = "call"
    /\ call.fn = "calculate_universal"
    /\ LET date == strptime(call.date)
       IN  ret' = [universal_year  |-> calculate_universal_year(date.year),
                   universal_month |-> calculate_universal_month(date.year, date.month),
                   universal_day   |-> calculate_universal_day(date.year, date.month,
                                                               date.day)]
    /\ pc' = "done"
    /\ UNCHANGED <<web, args, locals, result, call>>

CallNameToNumber ==
    /\ pc = "call"
    /\ call.fn = "name_to_number"
    /\ ret' = name_to_number(call.name)
    /\ pc' = "done"
    /\ UNCHANGED <<web, args, locals, result, call>>

CallMatchScore ==
    /\ pc = "call"
    /\ call.fn = "calculate_match_score"
    /\ ret' = calculate_match_score(
                  build_profile(normalize_name(keep_original(call.name)), call.birthdate),
                  strptime(call.date))
    /\ pc' = "done"
    /\ UNCHANGED <<web, args, locals, result, call>>

NextCalc ==
    \/ CallLifePath
    \/ CallUniversal
    \/ CallNameToNumber
    \/ CallMatchScore

SpecCalc == InitCalc /\ [][NextCalc]_vars

(* ------------------------------------------------------------------ *)
(* Direct calls of calculate_match_score, over every day of birth of two *)
(* years: 1988, with life paths 11 and 33, and 2000, with 11 and 22      *)
(* ------------------------------------------------------------------ *)
RuleBirthDates == ValidYMD({1988, 2000}, 1..12, 1..31)

InitScore ==
    /\ pc = "call"
    /\ \E n \in SampleNames, b \in RuleBirthDates, d \in ScoreMatchDates :
            call = Call("calculate_match_score", n,
                        ISO(b[1], b[2], b[3]), ISO(d[1], d[2], d[3]))
    /\ ret = None
    /\ result = None
    /\ player1_name = None /\ player1_birthdate = None
    /\ player2_name = None /\ player2_birthdate = None
    /\ match_date_str = None
    /\ match_date = None
    /\ player1_name_original = None /\ player2_name_original = None
    /\ player1 = None /\ player2 = None
    /\ score1 = None /\ reasons1 = None
    /\ score2 = None /\ reasons2 = None
    /\ NoWeb

NextScore == CallMatchScore

SpecScore == InitScore /\ [][NextScore]_vars

(* ------------------------------------------------------------------ *)
(* Direct calls of normalize_name                                       *)
(* ------------------------------------------------------------------ *)

(* 'I', 'r', ' ', '\t', '7', '-', 'é' and 'ß' *)
NormAlphabet == {73, 114, SPACE, TAB, 55, HYPHEN, E_ACUTE, SHARP_S}

NormNames == StringsOver(NormAlphabet, MaxNameLen) \cup SampleNames

InitNorm ==
    /\ pc = "call"
    /\ call \in { Call("normalize_name", n, <<>>, <<>>) : n \in NormNames }
    /\ ret = None
    /\ result = None
    /\ player1_name = None /\ player1_birthdate = None
    /\ player2_name = None /\ player2_birthdate = None
    /\ match_date_str = None
    /\ match_date = None
    /\ player1_name_original = None /\ player2_name_original = None
    /\ player1 = None /\ player2 = None
    /\ score1 = None /\ reasons1 = None
    /\ score2 = None /\ reasons2 = None
    /\ NoWeb

CallNormalizeName ==
    /\ pc = "call"
    /\ call.fn = "normalize_name"
    /\ ret' = normalize_name(call.name)
    /\ pc' = "done"
    /\ UNCHANGED <<web, args, locals, result, call>>

NextNorm == CallNormalizeName

SpecNorm == InitNorm /\ [][NextNorm]_vars

(* ------------------------------------------------------------------ *)
(* Direct calls of calculate_personal_year and calculate_personal_day   *)
(* ------------------------------------------------------------------ *)

(* target dates in years whose digits sum to 22, 11, 8 and 33 *)
PersonalDates == ValidYMD({1993, 2009, 2024, 6999}, 1..12, {4, 29})

InitPersonal ==
    /\ pc = "call"
    /\ \/ \E b \in ScoreBirthDates, y \in SweepYears :
            call = [fn |-> "calculate_personal_year",
                    birthdate |-> ISO(b[1], b[2], b[3]), year |-> y]
       \/ \E b \in ScoreBirthDates, d \in PersonalDates :
            call = Call("calculate_personal_day", <<>>,
                        ISO(b[1], b[2], b[3]), ISO(d[1], d[2], d[3]))
    /\ ret = None
    /\ result = None
    /\ player1_name = None /\ player1_birthdate = None
    /\ player2_name = None /\ player2_birthdate = None
    /\ match_date_str = None
    /\ match_date = None
    /\ player1_name_original = None /\ player2_name_original = None
    /\ player1 = None /\ player2 = None
    /\ score1 = None /\ reasons1 = None
    /\ score2 = None /\ reasons2 = None
    /\ NoWeb

CallPersonalYear ==
    /\ pc = "call"
    /\ call.fn = "calculate_personal_year"
    /\ ret' = calculate_personal_year(call.birthdate, call.year)
    /\ pc' = "done"
    /\ UNCHANGED <<web, args, locals, result, call>>

CallPersonalDay ==
    /\ pc = "call"
    /\ call.fn = "calculate_personal_day"
    /\ ret' = calculate_personal_day(call.birthdate, strptime(call.date))
    /\ pc' = "done"
    /\ UNCHANGED <<web, args, locals, result, call>>

NextPersonal == CallPersonalYear \/ CallPersonalDay

SpecPersonal == InitPersonal /\ [][NextPersonal]_vars

(* ------------------------------------------------------------------ *)
(* The demo endpoint and its limit per client IP (backend/main.py),     *)
(* requests handled one at a time                                       *)
(* ------------------------------------------------------------------ *)
MaxNow == 5
TicksPerDay == 2

(* timedelta(days=1) *)
OneDay == TicksPerDay

DemoIPs == {"203.0.113.1", "203.0.113.2"}

(* no engine call is part of the behaviour *)
NoEngine ==
    /\ pc = None
    /\ call = None
    /\ ret = None
    /\ result = None
    /\ player1_name = None /\ player1_birthdate = None
    /\ player2_name = None /\ player2_birthdate = None
    /\ match_date_str = None
    /\ match_date = None
    /\ player1_name_original = None /\ player2_name_original = None
    /\ player1 = None /\ player2 = None
    /\ score1 = None /\ reasons1 = None
    /\ score2 = None /\ reasons2 = None

(* DemoUsage(client_ip=..., count=0, reset_time=...), with the column
   defaults of created_at and updated_at *)
DemoUsage(count, reset_time, at) ==
    [count |-> count, reset_time |-> reset_time, created_at |-> at, updated_at |-> at]

(* mutant: the limit is compared with > *)
check_demo_rate_limit_db_late(table, client_ip, at) ==
    LET created == IF client_ip \in DOMAIN table
                   THEN table[client_ip]
                   ELSE DemoUsage(0, at + OneDay, at)
        usage   == IF at > created.reset_time
                   THEN [created EXCEPT !.count = 0, !.reset_time = at + OneDay,
                                        !.updated_at = at]
                   ELSE created
    IN  IF usage.count > 5
        THEN [allowed |-> FALSE, current_count |-> usage.count, remaining |-> 0,
              reset_time |-> usage.reset_time, usage |-> usage]
        ELSE [allowed |-> TRUE, current_count |-> usage.count + 1,
              remaining |-> 5 - (usage.count + 1), reset_time |-> usage.reset_time,
              usage |-> [usage EXCEPT !.count = usage.count + 1, !.updated_at = at]]

(* check_demo_rate_limit_db: the returned tuple, and the row as committed *)
check_demo_rate_limit_db(table, client_ip, at) ==
    LET created == IF client_ip \in DOMAIN table
                   THEN table[client_ip]
                   ELSE DemoUsage(0, at + OneDay, at)
        usage   == IF at > created.reset_time
                   THEN [created EXCEPT !.count = 0, !.reset_time = at + OneDay,
                                        !.updated_at = at]
                   ELSE created
    IN  IF usage.count >= 5
        THEN [allowed |-> FALSE, current_count |-> usage.count, remaining |-> 0,
              reset_time |-> usage.reset_time, usage |-> usage]
        ELSE [allowed |-> TRUE, current_count |-> usage.count + 1,
              remaining |-> 5 - (usage.count + 1), reset_time |-> usage.reset_time,
              usage |-> [usage EXCEPT !.count = usage.count + 1, !.updated_at = at]]

InitDemo ==
    /\ now = 0
    /\ demo_usage = [ip \in {} |-> 0]
    /\ demo_log = <<>>
    /\ demo_allowed = [ip \in DemoIPs |-> 0]
    /\ NoEngine
    /\ NoRate
    /\ loop_total = None
    /\ NoKeys

(* time passes between two requests *)
Tick ==
    /\ now < MaxNow
    /\ now' = now + 1
    /\ UNCHANGED <<demo_usage, demo_log, demo_allowed>>
    /\ UNCHANGED <<pc, args, locals, result, call, ret, rate, loop_total, keys>>

(* POST /api/v1/demo-analyze from client_ip: 429 when the limit is reached,
   otherwise the analysis, which answers 200 or, when it raises, 500 *)
demo_analyze(client_ip) ==
    LET r      == check_demo_rate_limit_db(demo_usage, client_ip, now)
        window == IF client_ip \notin DOMAIN demo_usage
                     \/ now > demo_usage[client_ip].reset_time
                  THEN 0 ELSE demo_allowed[client_ip]
    IN  /\ demo_usage' = (client_ip :> r.usage) @@ demo_usage
        /\ \E status \in IF r.allowed THEN {200, 500} ELSE {429} :
               demo_log' = << [client_ip |-> client_ip, at |-> now,
                               found |-> IF client_ip \in DOMAIN demo_usage
                                         THEN <<demo_usage[client_ip]>> ELSE <<>>,
                               allowed |-> r.allowed,
                               current_count |-> r.current_count,
                               remaining |-> r.remaining,
                               status |-> status] >>
        /\ demo_allowed' = [demo_allowed EXCEPT ![client_ip] =
                                IF r.allowed THEN window + 1 ELSE window]
        /\ UNCHANGED now
        /\ UNCHANGED <<pc, args, locals, result, call, ret, rate, loop_total, keys>>

NextDemo ==
    \/ Tick
    \/ \E client_ip \in DemoIPs : demo_analyze(client_ip)

SpecDemo == InitDemo /\ [][NextDemo]_vars

(* ------------------------------------------------------------------ *)
(* The authenticated endpoint and the daily limit of a user             *)
(* (backend/auth.py, backend/main.py): the requests of one user on one  *)
(* UTC day, each served by its own thread and database session          *)
(* ------------------------------------------------------------------ *)
NumWorkers == 2
MaxFailedLogs == 1

Workers == 1..NumWorkers

TIER_DAILY_LIMITS == [free |-> 10, starter |-> 100, pro |-> 1000]

(* UsageLog(..., success=...), timestamped today *)
UsageLog(success) == [endpoint |-> "/api/v1/analyze-match", success |-> success]

(* the number of rows of one kind *)
CountLogs(logs, row) == IF row \in DOMAIN logs THEN logs[row] ELSE 0

(* db.add(log); db.commit() *)
log_usage(logs, success) ==
    (UsageLog(success) :> CountLogs(logs, UsageLog(success)) + 1) @@ logs

(* TIER_DAILY_LIMITS.get(tier, TIER_DAILY_LIMITS["free"]) *)
daily_limit(tier) ==
    IF tier \in DOMAIN TIER_DAILY_LIMITS
    THEN TIER_DAILY_LIMITS[tier] ELSE TIER_DAILY_LIMITS["free"]

InitRate ==
    /\ plan_tier \in {"free", "starter", "pro"}
    /\ usage_logs = [row \in {} |-> 0]
    /\ worker = [w \in Workers |-> [pc |-> "idle", status |-> 0]]
    /\ NoEngine
    /\ loop_total = None
    /\ NoKeys
    /\ now = None
    /\ demo_usage = None
    /\ demo_log = None
    /\ demo_allowed = None

(* a request arrives at thread w and check_rate_limit counts today's
   successful rows: 429 at the limit, otherwise the handler goes on *)
check_rate_limit(w) ==
    /\ worker[w].pc = "idle"
    /\ LET request_count == CountLogs(usage_logs, UsageLog(TRUE))
           limit         == daily_limit(plan_tier)
       IN  IF request_count >= limit
           THEN worker' = [worker EXCEPT ![w] = [pc |-> "idle", status |-> 429]]
           ELSE worker' = [worker EXCEPT ![w] = [pc |-> "checked", status |-> 0]]
    /\ UNCHANGED <<plan_tier, usage_logs>>
    /\ UNCHANGED <<pc, args, locals, result, call, ret, demo, loop_total, keys>>

(* analyze_match returns and log_usage(success=True) is committed: 200 *)
analyze_and_log(w) ==
    /\ worker[w].pc = "checked"
    /\ usage_logs' = log_usage(usage_logs, TRUE)
    /\ worker' = [worker EXCEPT ![w] = [pc |-> "idle", status |-> 200]]
    /\ UNCHANGED plan_tier
    /\ UNCHANGED <<pc, args, locals, result, call, ret, demo, loop_total, keys>>

(* analyze_match raises and log_usage(success=False) is committed: 500 *)
fail_and_log(w) ==
    /\ worker[w].pc = "checked"
    /\ CountLogs(usage_logs, UsageLog(FALSE)) < MaxFailedLogs
    /\ usage_logs' = log_usage(usage_logs, FALSE)
    /\ worker' = [worker EXCEPT ![w] = [pc |-> "idle", status |-> 500]]
    /\ UNCHANGED plan_tier
    /\ UNCHANGED <<pc, args, locals, result, call, ret, demo, loop_total, keys>>

NextRate ==
    \E w \in Workers :
        \/ check_rate_limit(w)
        \/ analyze_and_log(w)
        \/ fail_and_log(w)

SpecRate == InitRate /\ [][NextRate]_vars

(* ------------------------------------------------------------------ *)
(* The demo endpoint with the requests of one client IP served at once: *)
(* each thread has its own session, so what it holds of the row is what *)
(* its last SELECT returned; a commit expires it and the next attribute *)
(* access loads the row again. One step per statement that reaches the  *)
(* database.                                                            *)
(* ------------------------------------------------------------------ *)
MaxBurstNow == 3

DemoClient == "203.0.113.1"

(* a thread that is not serving a request, with the status it answered last *)
Idle(status) ==
    [pc |-> "idle", at |-> 0, usage |-> <<>>, expired |-> FALSE, status |-> status]

InitBurst ==
    /\ now = 0
    /\ demo_usage = [ip \in {} |-> 0]
    /\ demo_log = <<>>
    /\ demo_allowed = [ip \in {DemoClient} |-> 0]
    /\ worker = [w \in Workers |-> Idle(0)]
    /\ plan_tier = None
    /\ usage_logs = None
    /\ loop_total = None
    /\ NoKeys
    /\ NoEngine

(* time passes *)
BurstTick ==
    /\ now < MaxBurstNow
    /\ now' = now + 1
    /\ UNCHANGED <<demo_usage, demo_log, demo_allowed, rate, loop_total, keys>>
    /\ UNCHANGED <<pc, args, locals, result, call, ret>>

(* the row as the thread sees it: loaded again when the session expired it *)
Loaded(w) ==
    IF worker[w].expired THEN demo_usage[DemoClient] ELSE worker[w].usage[1]

(* now = datetime.utcnow(); usage = db.query(DemoUsage).filter(...).first() *)
demo_select(w) ==
    /\ worker[w].pc = "idle"
    /\ worker' = [worker EXCEPT ![w] =
                     [pc |-> "selected", at |-> now,
                      usage |-> IF DemoClient \in DOMAIN demo_usage
                                THEN <<demo_usage[DemoClient]>> ELSE <<>>,
                      expired |-> FALSE, status |-> 0]]
    /\ UNCHANGED <<now, demo_usage, demo_log, demo_allowed, plan_tier, usage_logs,
                   loop_total, keys>>
    /\ UNCHANGED <<pc, args, locals, result, call, ret>>

(* if not usage: db.add(DemoUsage(...)); db.commit(). client_ip is unique:
   when another thread has inserted the row meanwhile, the commit raises
   IntegrityError and the request ends with 500 *)
demo_insert(w) ==
    /\ worker[w].pc = "selected"
    /\ worker[w].usage = <<>>
    /\ IF DemoClient \in DOMAIN demo_usage
       THEN /\ worker' = [worker EXCEPT ![w] = Idle(500)]
            /\ UNCHANGED <<demo_usage, demo_allowed>>
       ELSE /\ demo_usage' =
                 (DemoClient :> DemoUsage(0, worker[w].at + OneDay, worker[w].at))
                     @@ demo_usage
            /\ demo_allowed' = [demo_allowed EXCEPT ![DemoClient] = 0]
            /\ worker' = [worker EXCEPT ![w].pc = "found", ![w].expired = TRUE]
    /\ UNCHANGED <<now, demo_log, plan_tier, usage_logs, loop_total, keys>>
    /\ UNCHANGED <<pc, args, locals, result, call, ret>>

(* the row was there *)
demo_found(w) ==
    /\ worker[w].pc = "selected"
    /\ worker[w].usage # <<>>
    /\ worker' = [worker EXCEPT ![w].pc = "found"]
    /\ UNCHANGED <<now, demo_usage, demo_log, demo_allowed, plan_tier, usage_logs,
                   loop_total, keys>>
    /\ UNCHANGED <<pc, args, locals, result, call, ret>>

(* if now > usage.reset_time: usage.count = 0; usage.reset_time = ...;
   db.commit(): an UPDATE of the columns that were set *)
demo_reset(w) ==
    /\ worker[w].pc = "found"
    /\ LET usage == Loaded(w)
       IN  IF worker[w].at > usage.reset_time
           THEN /\ demo_usage' =
                     [demo_usage EXCEPT ![DemoClient].count = 0,
                                        ![DemoClient].reset_time = worker[w].at + OneDay,
                                        ![DemoClient].updated_at = worker[w].at]
                /\ demo_allowed' = [demo_allowed EXCEPT ![DemoClient] = 0]
                /\ worker' = [worker EXCEPT ![w].pc = "current", ![w].expired = TRUE]
           ELSE /\ worker' = [worker EXCEPT ![w].pc = "current",
                                            ![w].usage = <<usage>>,
                                            ![w].expired = FALSE]
                /\ UNCHANGED <<demo_usage, demo_allowed>>
    /\ UNCHANGED <<now, demo_log, plan_tier, usage_logs, loop_total, keys>>
    /\ UNCHANGED <<pc, args, locals, result, call, ret>>

(* if usage.count >= 5: 429; else usage.count += 1; usage.updated_at = now;
   db.commit(): the UPDATE writes the count the thread computed. The
   analysis then answers 200 or, when it raises, 500 *)
demo_count(w) ==
    /\ worker[w].pc = "current"
    /\ LET usage == Loaded(w)
       IN  IF usage.count >= 5
           THEN /\ worker' = [worker EXCEPT ![w] = Idle(429)]
                /\ UNCHANGED <<demo_usage, demo_allowed>>
           ELSE /\ demo_usage' =
                     [demo_usage EXCEPT ![DemoClient].count = usage.count + 1,
                                        ![DemoClient].updated_at = worker[w].at]
                /\ demo_allowed' =
                     [demo_allowed EXCEPT ![DemoClient] = demo_allowed[DemoClient] + 1]
                /\ \E status \in {200, 500} :
                       worker' = [worker EXCEPT ![w] = Idle(status)]
    /\ UNCHANGED <<now, demo_log, plan_tier, usage_logs, loop_total, keys>>
    /\ UNCHANGED <<pc, args, locals, result, call, ret>>

NextBurst ==
    \/ BurstTick
    \/ \E w \in Workers :
           \/ demo_select(w)
           \/ demo_insert(w)
           \/ demo_found(w)
           \/ demo_reset(w)
           \/ demo_count(w)

SpecBurst == InitBurst /\ [][NextBurst]_vars

(* ------------------------------------------------------------------ *)
(* Accounts and their API keys: signup, the key endpoints of a logged-in *)
(* user and the admin's tier endpoint, one request at a time.            *)
(* ------------------------------------------------------------------ *)
MaxKeyId == 4

(* str.lower() on the code points above *)
Lower(c) == IF c \in UpperLetters THEN c + 32 ELSE c

(* the tier names as the strings the endpoint compares with *)
TierNames ==
    [free    |-> <<102, 114, 101, 101>>,
     starter |-> <<115, 116, 97, 114, 116, 101, 114>>,
     pro     |-> <<112, 114, 111>>]

(* the tier query parameter: the three names, " Pro\t" and "gold" *)
TierInputs ==
    { TierNames["free"], TierNames["starter"], TierNames["pro"],
      <<SPACE, 80, 114, 111, TAB>>,
      <<103, 111, 108, 100>> }

(* the limit of active keys per tier; <<>> is None, no limit *)
TIER_API_KEY_LIMITS == [free |-> <<1>>, starter |-> <<3>>, pro |-> <<>>]

ADMIN_KEY == "secret"

Emails == {"a@example.com", "b@example.com"}

(* User(email=..., password_hash=..., plan_tier=...) *)
User(email, tier) == [email |-> email, plan_tier |-> tier]

(* APIKey(user_id=..., api_key=generate_api_key(), name=...), active by default *)
APIKey(user_id) == [user_id |-> user_id, active |-> TRUE]

(* the id the database gives to a new row: one above the highest in use *)
NextId(table) ==
    IF DOMAIN table = {} THEN 1
    ELSE (CHOOSE i \in DOMAIN table : \A j \in DOMAIN table : j <= i) + 1

(* db.query(APIKey).filter(user_id == ..., active == True).count() *)
active_keys_count(user_id) ==
    Cardinality({k \in DOMAIN api_keys :
                    api_keys[k].user_id = user_id /\ api_keys[k].active})

InitKeys ==
    /\ users = [u \in {} |-> 0]
    /\ user_ip_claims = {}
    /\ api_keys = [k \in {} |-> 0]
    /\ NoEngine
    /\ now = None
    /\ demo_usage = None
    /\ demo_log = None
    /\ demo_allowed = None
    /\ NoRate
    /\ loop_total = None

(* POST /auth/signup: 400 for a known email, 429 for an IP that has an
   account; otherwise a free user, its IP claim and its default key *)
signup(email, client_ip) ==
    /\ NextId(api_keys) <= MaxKeyId
    /\ IF \E u \in DOMAIN users : users[u].email = email
       THEN UNCHANGED keys
       ELSE IF \E c \in user_ip_claims : c.ip_address = client_ip
       THEN UNCHANGED keys
       ELSE LET id == NextId(users)
            IN  /\ users' = (id :> User(email, "free")) @@ users
                /\ user_ip_claims' =
                     user_ip_claims \cup {[user_id |-> id, ip_address |-> client_ip]}
                /\ api_keys' = (NextId(api_keys) :> APIKey(id)) @@ api_keys
    /\ UNCHANGED <<pc, args, locals, result, call, ret, demo, rate, loop_total>>

(* POST /api-keys: 403 when the user's active keys have reached the limit
   of the tier, otherwise one more active key *)
create_api_key(current_user) ==
    /\ current_user \in DOMAIN users
    /\ NextId(api_keys) <= MaxKeyId
    /\ LET tier      == users[current_user].plan_tier
           key_limit == IF tier \in DOMAIN TIER_API_KEY_LIMITS
                        THEN TIER_API_KEY_LIMITS[tier] ELSE <<1>>
       IN  IF key_limit # <<>> /\ active_keys_count(current_user) >= key_limit[1]
           THEN UNCHANGED api_keys
           ELSE api_keys' = (NextId(api_keys) :> APIKey(current_user)) @@ api_keys
    /\ UNCHANGED <<users, user_ip_claims>>
    /\ UNCHANGED <<pc, args, locals, result, call, ret, demo, rate, loop_total>>

(* DELETE /api-keys/{key_id}: 404 unless the key is the user's *)
delete_api_key(key_id, current_user) ==
    /\ current_user \in DOMAIN users
    /\ IF key_id \in DOMAIN api_keys /\ api_keys[key_id].user_id = current_user
       THEN api_keys' = [k \in DOMAIN api_keys \ {key_id} |-> api_keys[k]]
       ELSE UNCHANGED api_keys
    /\ UNCHANGED <<users, user_ip_claims>>
    /\ UNCHANGED <<pc, args, locals, result, call, ret, demo, rate, loop_total>>

(* POST /api-keys/{key_id}/revoke: 404 unless the key is the user's *)
revoke_api_key(key_id, current_user) ==
    /\ current_user \in DOMAIN users
    /\ IF key_id \in DOMAIN api_keys /\ api_keys[key_id].user_id = current_user
       THEN api_keys' = [api_keys EXCEPT ![key_id].active = FALSE]
       ELSE UNCHANGED api_keys
    /\ UNCHANGED <<users, user_ip_claims>>
    /\ UNCHANGED <<pc, args, locals, result, call, ret, demo, rate, loop_total>>

(* POST /admin/users/{user_id}/tier: 401 without the admin key, 400 for a
   tier that is none of the three after strip().lower(), 404 for an unknown
   user; otherwise the tier is stored, and nothing else changes *)
set_user_tier(user_id, tier, admin_key) ==
    /\ LET stripped   == Strip(tier)
           normalized == [i \in 1..Len(stripped) |-> Lower(stripped[i])]
       IN  IF admin_key # ADMIN_KEY
           THEN UNCHANGED users
           ELSE IF \A t \in DOMAIN TierNames : TierNames[t] # normalized
           THEN UNCHANGED users
           ELSE IF user_id \notin DOMAIN users
           THEN UNCHANGED users
           ELSE users' =
                  [users EXCEPT ![user_id].plan_tier =
                      CHOOSE t \in DOMAIN TierNames : TierNames[t] = normalized]
    /\ UNCHANGED <<user_ip_claims, api_keys>>
    /\ UNCHANGED <<pc, args, locals, result, call, ret, demo, rate, loop_total>>

NextKeys ==
    \/ \E email \in Emails, client_ip \in DemoIPs : signup(email, client_ip)
    \/ \E u \in 1..Cardinality(Emails) : create_api_key(u)
    \/ \E k \in 1..MaxKeyId, u \in 1..Cardinality(Emails) : delete_api_key(k, u)
    \/ \E k \in 1..MaxKeyId, u \in 1..Cardinality(Emails) : revoke_api_key(k, u)
    \/ \E u \in 1..Cardinality(Emails), tier \in TierInputs,
          admin_key \in {ADMIN_KEY, "wrong"} :
           set_user_tier(u, tier, admin_key)

SpecKeys == InitKeys /\ [][NextKeys]_vars

(* ------------------------------------------------------------------ *)
(* The reduction loop of calculate_life_path and of name_to_number,     *)
(* one iteration per step                                               *)
(* ------------------------------------------------------------------ *)
MaxTotal == 10000

(* mutant: the loop goes on through 11, 22 and 33 *)
while_reducing_plain(n) == n > 9

(* while total > 9 and total not in [11, 22, 33] *)
while_reducing(n) == n > 9 /\ n \notin {11, 22, 33}

InitReduce ==
    /\ pc = "loop"
    /\ \E n \in 0..MaxTotal :
        \E fn \in {"calculate_life_path", "name_to_number"} :
           /\ call = [fn |-> "while", of |-> fn, total |-> n]
           /\ loop_total = n
    /\ ret = None
    /\ result = None
    /\ player1_name = None /\ player1_birthdate = None
    /\ player2_name = None /\ player2_birthdate = None
    /\ match_date_str = None
    /\ match_date = None
    /\ player1_name_original = None /\ player2_name_original = None
    /\ player1 = None /\ player2 = None
    /\ score1 = None /\ reasons1 = None
    /\ score2 = None /\ reasons2 = None
    /\ now = None
    /\ demo_usage = None
    /\ demo_log = None
    /\ demo_allowed = None
    /\ NoRate
    /\ NoKeys

(* total = sum(int(d) for d in str(total)) *)
ReduceStep ==
    /\ pc = "loop"
    /\ while_reducing(loop_total)
    /\ loop_total' = DigitSum(loop_total)
    /\ UNCHANGED <<pc, args, locals, result, call, ret, demo, rate, keys>>

(* return total: the value returned is the one total holds *)
ReduceReturn ==
    /\ pc = "loop"
    /\ ~while_reducing(loop_total)
    /\ pc' = "done"
    /\ UNCHANGED <<args, locals, result, call, ret, demo, rate, loop_total, keys>>

NextReduce == ReduceStep \/ ReduceReturn

(* a loop that can take a step takes it *)
SpecReduce == InitReduce /\ [][NextReduce]_vars /\ WF_vars(NextReduce)

(* ------------------------------------------------------------------ *)
(* Properties                                                           *)
(* ------------------------------------------------------------------ *)

(* the texts and the weights of the six rules, in the order of the table *)
RuleTable ==
    << [fmt |-> "Life Path {} matches Universal Year {} (+{})", weight |-> 10],
       [fmt |-> "Personal Year {} matches Universal Year {} (+{})", weight |-> 10],
       [fmt |-> "Personal Day {} matches Universal Day {} (+{})", weight |-> 5],
       [fmt |-> "Expression {} matches Universal Month {} (+{})", weight |-> 5],
       [fmt |-> "Life Path {} harmonizes with Universal Year {} (+{})", weight |-> 3],
       [fmt |-> "Personal Year {} harmonizes with Universal Year {} (+{})", weight |-> 3] >>

SameGroup(a, b) ==
    \/ a \in {1, 3, 5, 7, 9} /\ b \in {1, 3, 5, 7, 9}
    \/ a \in {2, 4, 6, 8} /\ b \in {2, 4, 6, 8}

(* which of the six rules hold for a profile on a date *)
RuleHolds(profile, date) ==
    LET uy == calculate_universal_year(date.year)
        um == calculate_universal_month(date.year, date.month)
        ud == calculate_universal_day(date.year, date.month, date.day)
        py == calculate_personal_year(profile.birthdate, date.year)
        pd == calculate_personal_day(profile.birthdate, date)
    IN  << profile.life_path = uy,
           py = uy,
           pd = ud,
           profile.expression = um,
           SameGroup(profile.life_path, uy),
           SameGroup(py, uy) >>

FiredRules(profile, date) ==
    SelectSeq(<<1, 2, 3, 4, 5, 6>>, LAMBDA i : RuleHolds(profile, date)[i])

ScoreCall == pc = "done" /\ call.fn = "calculate_match_score"

ScoreCallProfile ==
    build_profile(normalize_name(Strip(call.name)), call.birthdate)

(* C1: calculate_match_score returns one reason per rule that holds, in the
   fixed order of the six rules and with the rule's weight written in it,
   and the score is the sum of the weights written in the returned reasons. *)
C1_ReasonsInRuleOrderAndScoreIsTheirSum ==
    ScoreCall =>
        LET fired == FiredRules(ScoreCallProfile, strptime(call.date))
        IN  /\ Len(ret.reasons) = Len(fired)
            /\ \A k \in 1..Len(fired) :
                 /\ ret.reasons[k].fmt = RuleTable[fired[k]].fmt
                 /\ ret.reasons[k].weight = RuleTable[fired[k]].weight
            /\ ret.score =
                 SumSeq([k \in 1..Len(ret.reasons) |-> ret.reasons[k].weight])

(* a call where rules 1, 2, 3, 5 and 6 fire and rule 4 does not *)
C1_Witness ==
    /\ ScoreCall
    /\ FiredRules(ScoreCallProfile, strptime(call.date)) = <<1, 2, 3, 5, 6>>
    /\ ret.score = 31

Returned == pc = "returned"

(* C2: confidence, recommendation and bet_size follow from score_difference
   alone: 20 or more is STRONG with "Strong bet on {winner}" and "3-5% of
   bankroll", 10 to 19 is MODERATE with "Moderate bet on {winner}" and "1-2%
   of bankroll", 9 or less is LOW with the fixed text "Avoid / No bet", in
   which no winner is substituted, and "Skip this match". *)
C2_TierFromScoreDifference ==
    Returned =>
        LET d == result.score_difference
            w == result.winner_prediction
        IN  /\ d >= 20 =>
                /\ result.confidence = "STRONG"
                /\ result.recommendation = [fmt |-> "Strong bet on {}", args |-> <<w>>]
                /\ result.bet_size = "3-5% of bankroll"
            /\ (d >= 10 /\ d <= 19) =>
                /\ result.confidence = "MODERATE"
                /\ result.recommendation = [fmt |-> "Moderate bet on {}", args |-> <<w>>]
                /\ result.bet_size = "1-2% of bankroll"
            /\ d <= 9 =>
                /\ result.confidence = "LOW"
                /\ result.recommendation = [fmt |-> "Avoid / No bet", args |-> <<>>]
                /\ result.bet_size = "Skip this match"

(* a verdict on the boundary: a difference of exactly 20 *)
C2_Witness ==
    /\ Returned
    /\ result.score_difference = 20
    /\ result.confidence = "STRONG"

Max(a, b) == IF a >= b THEN a ELSE b

Min(a, b) == IF a <= b THEN a ELSE b

(* C3: winner_prediction is player 1's display name when score1 > score2,
   player 2's when score2 > score1 and "TIE" when the scores are equal; the
   summary embeds the winner, the winner's score, the other score and the
   match date, so its first number is never below its second. *)
C3_WinnerAndSummary ==
    Returned =>
        /\ score1 > score2 => result.winner_prediction = result.player1.name
        /\ score2 > score1 => result.winner_prediction = result.player2.name
        /\ score1 = score2 => result.winner_prediction = <<84, 73, 69>>
        /\ result.analysis_summary.fmt =
               "{} has numerological advantage ({} vs {}) on {}"
        /\ result.analysis_summary.args =
               << result.winner_prediction, Max(score1, score2),
                  Min(score1, score2), match_date_str >>
        /\ result.analysis_summary.args[2] >= result.analysis_summary.args[3]

(* player 2 wins: the summary's first number is player 2's score *)
C3_Witness ==
    /\ Returned
    /\ score2 > score1
    /\ result.winner_prediction = result.player2.name
    /\ result.analysis_summary.args[2] = score2

(* the first value of total, DigitSum(total), ... that is at most 9 or is
   11, 22 or 33 *)
RECURSIVE MasterReduction(_)
MasterReduction(n) ==
    IF n \in {11, 22, 33} \/ n <= 9 THEN n ELSE MasterReduction(DigitSum(n))

LifePathCall == pc = "done" /\ call.fn = "calculate_life_path"

(* C4: for a valid calendar birthdate YYYY-MM-DD, calculate_life_path is the
   master-number-aware reduction of the sum of the eight digits, and is one
   of 1..9, 11, 22, 33. *)
C4_LifePathIsMasterAwareReduction ==
    LifePathCall =>
        LET d     == strptime(call.birthdate)
            total == DigitSum(d.year) + DigitSum(d.month) + DigitSum(d.day)
        IN  /\ d.ok
            /\ ret \in (1..9) \cup {11, 22, 33}
            /\ ret = MasterReduction(total)

(* a birthdate whose digits sum to 29: the life path is 11, not 2 *)
C4_Witness ==
    /\ LifePathCall
    /\ SumSeq([i \in 1..8 |-> SelectSeq(call.birthdate, IsDigit)[i] - 48]) = 29
    /\ ret = 11

(* the digital root: the single digit a plain reduction ends in *)
DigitalRoot(n) == IF n = 0 THEN 0 ELSE 1 + ((n - 1) % 9)

UniversalCall == pc = "done" /\ call.fn = "calculate_universal"

(* C5: for a valid match date the universal year, month and day are in
   1..9, never 11, 22 or 33: the year is the plain reduction of the year's
   digit sum, the month that of (universal year + month), the day that of
   (universal month + day). *)
C5_UniversalNumbersArePlainReductions ==
    UniversalCall =>
        LET d == strptime(call.date)
        IN  /\ d.ok
            /\ ret.universal_year \in 1..9
            /\ ret.universal_month \in 1..9
            /\ ret.universal_day \in 1..9
            /\ ret.universal_year = DigitalRoot(DigitSum(d.year))
            /\ ret.universal_month = DigitalRoot(ret.universal_year + d.month)
            /\ ret.universal_day = DigitalRoot(ret.universal_month + d.day)

(* the year 2009, whose digits sum to 11, has universal year 2 *)
C5_Witness ==
    /\ UniversalCall
    /\ strptime(call.date).year = 2009
    /\ ret.universal_year = 2

(* the chart as the specification lists it, by upper-case code point *)
ChartValue(u) ==
    CASE u \in {65, 74, 83} -> 1
      [] u \in {66, 75, 84} -> 2
      [] u \in {67, 76, 85} -> 3
      [] u \in {68, 77, 86} -> 4
      [] u \in {69, 78, 87} -> 5
      [] u \in {70, 79, 88} -> 6
      [] u \in {71, 80, 89} -> 7
      [] u \in {72, 81, 90} -> 8
      [] u \in {73, 82}     -> 9
      [] OTHER              -> 0

(* the value of one character of a name: a letter counts in either case, an
   accented letter as its base letter, anything else 0 *)
CharValue(c) ==
    CASE c \in 65..90  -> ChartValue(c)
      [] c \in 97..122 -> ChartValue(c - 32)
      [] c = 233       -> ChartValue(69)
      [] c = 353       -> ChartValue(83)
      [] OTHER         -> 0

NameCall == pc = "done" /\ call.fn = "name_to_number"

(* C6: name_to_number maps every letter of the name, in either case,
   through the Pythagorean chart, counts every other character as 0, sums
   the values and applies the master-number-aware reduction; "JOHN" gives 2. *)
C6_NameToNumberFollowsChart ==
    NameCall =>
        /\ ret = MasterReduction(
                     SumSeq([i \in 1..Len(call.name) |-> CharValue(call.name[i])]))
        /\ call.name = <<74, 79, 72, 78>> => ret = 2

(* the oracle case "JOHN" *)
C6_Witness ==
    /\ NameCall
    /\ call.name = <<74, 79, 72, 78>>
    /\ ret = 2

AllRulesHold(profile, date) == \A i \in 1..6 : RuleHolds(profile, date)[i]

(* C7: the score of every profile built by analyze_match is an integer from
   0 to 36, and it is 36 exactly when all six rules hold. *)
C7_ScoreBetween0And36 ==
    pc \in {"scored", "returned"} =>
        /\ score1 \in 0..36
        /\ score2 \in 0..36
        /\ score1 = 36 <=> AllRulesHold(player1, match_date)
        /\ score2 = 36 <=> AllRulesHold(player2, match_date)

(* both bounds in one verdict: player 1 scores 36 and player 2 scores 0 *)
C7_Witness ==
    /\ Returned
    /\ result.player1.score = 36
    /\ result.player2.score = 0

(* C8: when the two scores are equal the verdict is "TIE", difference 0,
   LOW, "Avoid / No bet", "Skip this match". *)
C8_TieVerdict ==
    (Returned /\ result.player1.score = result.player2.score) =>
        /\ result.winner_prediction = <<84, 73, 69>>
        /\ result.score_difference = 0
        /\ result.confidence = "LOW"
        /\ result.recommendation = [fmt |-> "Avoid / No bet", args |-> <<>>]
        /\ result.bet_size = "Skip this match"

(* two different athletes, neither called TIE, with the same positive score *)
C8_Witness ==
    /\ Returned
    /\ result.player1.score = result.player2.score
    /\ result.player1.score > 0
    /\ player1_birthdate # player2_birthdate
    /\ result.player1.name # <<84, 73, 69>>
    /\ result.player2.name # <<84, 73, 69>>
    /\ result.winner_prediction = <<84, 73, 69>>

(* C9: winner_prediction is "TIE" if and only if the two scores are equal. *)
C9_TieSentinelIffEqualScores ==
    Returned =>
        (result.winner_prediction = <<84, 73, 69>> <=> score1 = score2)

(* C10, as claimed: the reported names are the caller's strings verbatim. *)
C10_NamesVerbatim ==
    Returned =>
        /\ result.player1.name = player1_name
        /\ result.player2.name = player2_name
        /\ score1 > score2 => result.winner_prediction = player1_name
        /\ score2 > score1 => result.winner_prediction = player2_name

(* t is s without its leading and trailing whitespace: s is t between two
   runs of whitespace, and t neither starts nor ends with whitespace *)
IsTrimOf(t, s) ==
    \E i \in 0..Len(s), j \in 0..Len(s) :
        /\ i + j <= Len(s)
        /\ t = SubSeq(s, i + 1, Len(s) - j)
        /\ \A k \in 1..i : IsSpace(s[k])
        /\ \A k \in (Len(s) - j + 1)..Len(s) : IsSpace(s[k])
        /\ t # <<>> => ~IsSpace(t[1]) /\ ~IsSpace(t[Len(t)])

(* C10, amended: the reported names, and winner_prediction when that player
   wins, are the caller's strings without their leading and trailing
   whitespace, every other character kept (diacritics included); the
   calculation name alone is normalized. *)
C10_NamesTrimmedOnly ==
    Returned =>
        /\ IsTrimOf(result.player1.name, player1_name)
        /\ IsTrimOf(result.player2.name, player2_name)
        /\ score1 > score2 => result.winner_prediction = result.player1.name
        /\ score2 > score1 => result.winner_prediction = result.player2.name
        /\ player1.name = normalize_name(result.player1.name)
        /\ player2.name = normalize_name(result.player2.name)

(* the padded, accented name wins: reported trimmed, with its caron *)
C10_Witness ==
    /\ Returned
    /\ score1 > score2
    /\ player1_name = <<32, 86, 97, 353, 107, 111, 9>>
    /\ result.winner_prediction = <<86, 97, 353, 107, 111>>
    /\ result.player1.name = <<86, 97, 353, 107, 111>>

(* the shape \d{4}-\d{2}-\d{2} *)
IsYYYYMMDD(s) ==
    /\ Len(s) = 10
    /\ s[5] = HYPHEN /\ s[8] = HYPHEN
    /\ \A i \in {1, 2, 3, 4, 6, 7, 9, 10} : IsDigit(s[i])

(* C11: analyze_match returns a verdict only when the match date and both
   birthdates are well-formed YYYY-MM-DD strings; with any other string in
   one of the three it fails and returns nothing. *)
C11_VerdictOnlyFromWellFormedDates ==
    Returned =>
        /\ IsYYYYMMDD(match_date_str)
        /\ IsYYYYMMDD(player1_birthdate)
        /\ IsYYYYMMDD(player2_birthdate)

(* the universal number a reason of rule i is written with *)
ReportedUniversal(i) ==
    CASE i \in {1, 2, 5, 6} -> result.universal_year
      [] i = 3               -> result.universal_day
      [] i = 4               -> result.universal_month

RuleOfReason(reason) == CHOOSE i \in 1..6 : RuleTable[i].fmt = reason.fmt

HasReason(block, i) ==
    \E k \in 1..Len(block.reasons) : block.reasons[k].fmt = RuleTable[i].fmt

(* C12: the universal_year, universal_month and universal_day of a verdict
   are the universal numbers of its match date (8, 6 and 1 for 2024-07-04),
   they are the values both players were scored against, and
   score_difference is the absolute difference of the two reported scores. *)
C12_UniversalFieldsAndScoreDifference ==
    Returned =>
        LET y  == DigitsValue(SubSeq(result.match_date, 1, 4))
            m  == DigitsValue(SubSeq(result.match_date, 6, 7))
            d  == DigitsValue(SubSeq(result.match_date, 9, 10))
            uy == DigitalRoot(DigitSum(y))
            um == DigitalRoot(uy + m)
            ud == DigitalRoot(um + d)
        IN  /\ result.universal_year = uy
            /\ result.universal_month = um
            /\ result.universal_day = ud
            /\ result.match_date = ISO(2024, 7, 4) =>
                   /\ result.universal_year = 8
                   /\ result.universal_month = 6
                   /\ result.universal_day = 1
            /\ \A block \in {result.player1, result.player2} :
                   /\ \A k \in 1..Len(block.reasons) :
                          block.reasons[k].b =
                              ReportedUniversal(RuleOfReason(block.reasons[k]))
                   /\ HasReason(block, 1) <=> block.life_path = result.universal_year
                   /\ HasReason(block, 2) <=> block.personal_year = result.universal_year
                   /\ HasReason(block, 4) <=> block.expression = result.universal_month
            /\ result.score_difference =
                   Max(result.player1.score, result.player2.score)
                     - Min(result.player1.score, result.player2.score)

(* 2024-07-04: player 2 is ahead, and both players have reasons *)
C12_Witness ==
    /\ Returned
    /\ result.match_date = ISO(2024, 7, 4)
    /\ result.player2.score > result.player1.score
    /\ result.player1.reasons # <<>>
    /\ HasReason(result.player2, 3)

NormCall == pc = "done" /\ call.fn = "normalize_name"

(* C13: normalize_name is idempotent, and the expression number of a name
   that is already normalized equals the expression number of the name it
   was normalized from. *)
C13_NormalizeIsIdempotent ==
    NormCall =>
        /\ normalize_name(ret) = ret
        /\ name_to_number(ret) = name_to_number(call.name)

(* " é7r" is normalized to "e r", which is changed no further *)
C13_Witness ==
    /\ NormCall
    /\ call.name = <<SPACE, E_ACUTE, 55, 114>>
    /\ ret = <<101, SPACE, 114>>

(* C14: normalize_name returns, for every string and for the empty string,
   only ASCII letters and single spaces: no other character, no two
   whitespace characters in a row, none at either end. *)
C14_NormalizedIsLettersAndSingleSpaces ==
    NormCall =>
        /\ \A i \in 1..Len(ret) :
               ret[i] \in (65..90) \cup (97..122) \cup {SPACE}
        /\ \A i \in 1..(Len(ret) - 1) : ~(ret[i] = SPACE /\ ret[i + 1] = SPACE)
        /\ ret # <<>> => ret[1] # SPACE /\ ret[Len(ret)] # SPACE

(* "I\t-r": the tab and the hyphen become one space between the letters *)
C14_Witness ==
    /\ NormCall
    /\ call.name = <<73, TAB, HYPHEN, 114>>
    /\ ret = <<73, SPACE, 114>>

(* no character of the name is a letter of the chart *)
NoLetters(name) == \A i \in 1..Len(name) : CharValue(name[i]) = 0

(* a string of the shape dddd-dd-dd that names a day of the calendar *)
IsCalendarDate(s) ==
    /\ IsYYYYMMDD(s)
    /\ LET y == DigitsValue(SubSeq(s, 1, 4))
           m == DigitsValue(SubSeq(s, 6, 7))
           d == DigitsValue(SubSeq(s, 9, 10))
       IN  y >= 1 /\ m \in 1..12 /\ d \in 1..DaysInMonth(y, m)

Profiled == pc \in {"profiled", "scored", "returned"}

(* C15: a name that is empty, only whitespace, or without any letter has
   expression number 0; analyze_match does not fail because of it, and the
   player earns nothing from the expression rule, the universal month being
   in 1..9. *)
C15_EmptyNameHasExpressionZero ==
    /\ ( /\ NoLetters(player1_name) \/ NoLetters(player2_name)
         /\ IsCalendarDate(match_date_str)
         /\ IsCalendarDate(player1_birthdate)
         /\ IsCalendarDate(player2_birthdate) ) => pc # "raised"
    /\ (Profiled /\ NoLetters(player1_name)) => player1.expression = 0
    /\ (Profiled /\ NoLetters(player2_name)) => player2.expression = 0
    /\ Returned =>
          /\ result.universal_month \in 1..9
          /\ NoLetters(player1_name) =>
                 result.player1.expression = 0 /\ ~HasReason(result.player1, 4)
          /\ NoLetters(player2_name) =>
                 result.player2.expression = 0 /\ ~HasReason(result.player2, 4)

(* " \t" against "JOHN" in March 2024: JOHN's expression 2 matches the
   universal month, the blank name's 0 does not *)
C15_Witness ==
    /\ Returned
    /\ player1_name = <<SPACE, TAB>>
    /\ result.player1.name = <<>>
    /\ result.player1.expression = 0
    /\ result.universal_month = 2
    /\ HasReason(result.player2, 4)

(* C16, as claimed: calculate_life_path("1987-05-22") returns 4. *)
C16_LifePathOf19870522Is4 ==
    (LifePathCall /\ call.birthdate = ISO(1987, 5, 22)) => ret = 4

(* C16, amended: calculate_life_path("1987-05-22") returns 7, the reduction
   of 1+9+8+7+0+5+2+2 = 34. *)
C16_LifePathOf19870522Is7 ==
    (LifePathCall /\ call.birthdate = ISO(1987, 5, 22)) => ret = 7

C16_Witness ==
    /\ LifePathCall
    /\ call.birthdate = <<49, 57, 56, 55, HYPHEN, 48, 53, HYPHEN, 50, 50>>
    /\ ret = 7

(* the count a demo request is judged by: the stored count, or 0 when the
   row is missing or its reset_time has passed *)
EffectiveCount(found, at) ==
    IF found = <<>> THEN 0
    ELSE IF at > found[1].reset_time THEN 0
    ELSE found[1].count

(* C17: with the requests of a client IP handled one at a time, its stored
   demo count stays in 0..5; a request is allowed exactly when the count,
   taken as 0 once reset_time has passed, is below 5, so at most 5 requests
   are allowed in one window; any further request gets 429 and leaves the
   count as it was. *)
C17_DemoLimitFivePerWindow ==
    /\ \A ip \in DOMAIN demo_usage : demo_usage[ip].count \in 0..5
    /\ \A ip \in DemoIPs : demo_allowed[ip] <= 5
    /\ demo_log # <<>> =>
          LET r   == demo_log[1]
              eff == EffectiveCount(r.found, r.at)
          IN  /\ r.allowed <=> eff < 5
              /\ r.allowed =>
                    /\ r.status \in {200, 500}
                    /\ demo_usage[r.client_ip].count = eff + 1
              /\ ~r.allowed =>
                    /\ r.status = 429
                    /\ demo_usage[r.client_ip].count = 5
                    /\ demo_usage[r.client_ip] = r.found[1]

(* a sixth request is rejected in a window that began with a reset *)
C17_Witness ==
    /\ demo_log # <<>>
    /\ demo_log[1].status = 429
    /\ demo_allowed[demo_log[1].client_ip] = 5
    /\ demo_log[1].found[1].created_at + OneDay < demo_log[1].found[1].reset_time

(* C18: the successful analyze-match requests of a user on one day never
   exceed the daily limit of the user's tier (free 10, starter 100, pro
   1000), however the user's concurrent requests interleave. *)
C18_DailyLimitNeverExceeded ==
    CountLogs(usage_logs, UsageLog(TRUE)) <=
        (CASE plan_tier = "free"    -> 10
           [] plan_tier = "starter" -> 100
           [] plan_tier = "pro"     -> 1000)

(* the first of n, DigitSum(n), DigitSum(DigitSum(n)), ... that is at most 9
   or is 11, 22 or 33; three sums are enough up to 10^21 *)
FirstStop(n) ==
    LET stop(x) == x <= 9 \/ x \in {11, 22, 33}
        s1 == DigitSum(n)
        s2 == DigitSum(s1)
        s3 == DigitSum(s2)
    IN  IF stop(n) THEN n ELSE IF stop(s1) THEN s1 ELSE IF stop(s2) THEN s2 ELSE s3

ReduceDone == pc = "done" /\ call.fn = "while"

C19_ReturnsFirstStop ==
    /\ loop_total \in 0..MaxTotal
    /\ ReduceDone =>
          /\ loop_total = FirstStop(call.total)
          /\ loop_total = life_path_reduce(call.total)
          /\ loop_total = name_to_number_reduce(call.total)
          /\ \/ loop_total \in (1..9) \cup {11, 22, 33}
             \/ loop_total = 0 /\ call.total = 0
          /\ call.total = 29 => loop_total = 11

(* C19: the master-number-aware loop of calculate_life_path and of
   name_to_number ends for every starting total in 0..10000 and returns a
   value of {1..9, 11, 22, 33}, or 0 for 0: the first running total that is
   at most 9 or is 11, 22 or 33 (29 gives 11, not 2). *)
C19_ReductionLoopTerminatesInRange ==
    []C19_ReturnsFirstStop /\ <>(pc = "done")

(* 29 is reduced once, to 11, and 11 is returned *)
C19_Witness ==
    /\ ReduceDone
    /\ call.total = 29
    /\ loop_total = 11

PersonalYearCall == pc = "done" /\ call.fn = "calculate_personal_year"

PersonalDayCall == pc = "done" /\ call.fn = "calculate_personal_day"

(* the month and the day written in a YYYY-MM-DD string *)
MonthOf(s) == DigitsValue(SubSeq(s, 6, 7))

DayOf(s) == DigitsValue(SubSeq(s, 9, 10))

(* C20: calculate_personal_year is the plain reduction of birth month +
   birth day + digit sum of the target year, calculate_personal_day the
   plain reduction of that personal year + target month + target day; both
   are in 1..9, never 11, 22 or 33. *)
C20_PersonalNumbersArePlainReductions ==
    /\ PersonalYearCall =>
          /\ ret = DigitalRoot(MonthOf(call.birthdate) + DayOf(call.birthdate)
                                 + DigitSum(call.year))
          /\ ret \in 1..9
    /\ PersonalDayCall =>
          LET y  == DigitsValue(SubSeq(call.date, 1, 4))
              py == DigitalRoot(MonthOf(call.birthdate) + DayOf(call.birthdate)
                                  + DigitSum(y))
          IN  /\ ret = DigitalRoot(py + MonthOf(call.date) + DayOf(call.date))
              /\ ret \in 1..9

(* born on 2 January, on 2024-07-29: 1+2+8 = 11 gives personal year 2, and
   2+7+29 = 38 gives 11 and then personal day 2 *)
C20_Witness ==
    /\ PersonalDayCall
    /\ call.birthdate = ISO(1988, 1, 2)
    /\ call.date = ISO(2024, 7, 29)
    /\ ret = 2

(* the four steps of the specified pipeline: decompose, strip the combining
   marks, put a space for every character that is neither an ASCII letter
   nor whitespace, collapse the whitespace and trim *)
StripCombining(s) ==
    SelectSeq(s, LAMBDA c : c \notin {COMBINING_ACUTE, COMBINING_CARON})

SpacedPipeline(name) ==
    LET a == NFKD(name)
        b == StripCombining(a)
        c == [i \in 1..Len(b) |->
                 IF b[i] \in (65..90) \cup (97..122) \/ IsSpace(b[i])
                 THEN b[i] ELSE SPACE]
    IN  Strip(CollapseSpaces(c))

(* C21: normalize_name returns what the four-step pipeline returns, so two
   letters with a digit, a punctuation mark or an undecomposable non-ASCII
   character between them come out with a space between them. *)
C21_NormalizeIsTheSpacedPipeline ==
    NormCall => ret = SpacedPipeline(call.name)

(* the points the returned reasons of the rules in a set add up to *)
PointsOf(rules) ==
    SumSeq([k \in 1..Len(ret.reasons) |->
               IF RuleOfReason(ret.reasons[k]) \in rules
               THEN ret.reasons[k].weight ELSE 0])

(* C22: whenever rule 1 fires rule 5 fires too, and whenever rule 2 fires
   rule 6 fires too: an exact match with the universal year brings 13
   points, never 10 alone. *)
C22_ExactMatchAlsoHarmonizes ==
    ScoreCall =>
        /\ HasReason(ret, 1) => HasReason(ret, 5)
        /\ HasReason(ret, 2) => HasReason(ret, 6)
        /\ PointsOf({1, 5}) \in {0, 3, 13}
        /\ PointsOf({2, 6}) \in {0, 3, 13}

(* the life path matches the universal year, the personal year only
   harmonizes with it *)
C22_Witness ==
    /\ ScoreCall
    /\ HasReason(ret, 1) /\ HasReason(ret, 5)
    /\ ~HasReason(ret, 2) /\ HasReason(ret, 6)
    /\ PointsOf({1, 5}) = 13

(* C23: rule 3 (personal day = universal day) fires exactly when rule 2
   (personal year = universal year) fires; together they bring 0 or 15
   points, never 5 or 10. *)
C23_PersonalDayRuleIffPersonalYearRule ==
    ScoreCall =>
        /\ HasReason(ret, 3) <=> HasReason(ret, 2)
        /\ PointsOf({2, 3}) \in {0, 15}

(* born on 8 January, on 2024-10-04: personal year 8, and the personal day
   total 8+10+4 = 22 is reduced to the universal day 4 *)
C23_Witness ==
    /\ ScoreCall
    /\ call.birthdate = ISO(1988, 1, 8)
    /\ call.date = ISO(2024, 10, 4)
    /\ HasReason(ret, 2) /\ HasReason(ret, 3)

(* C24: rule 2 fires exactly when birth month + birth day is divisible by
   9, whatever the match date is. *)
C24_PersonalYearRuleIffBirthSumDivisibleBy9 ==
    ScoreCall =>
        (HasReason(ret, 2) <=>
            (MonthOf(call.birthdate) + DayOf(call.birthdate)) % 9 = 0)

(* born on 9 September (9 + 9 = 18), in a year with universal year 9 *)
C24_Witness ==
    /\ ScoreCall
    /\ call.birthdate = ISO(2000, 9, 9)
    /\ call.date = ISO(2025, 2, 4)
    /\ HasReason(ret, 2)

(* C25: a profile whose life path is 11, 22 or 33 gets no points from rule 1
   or rule 5, and its score is at most 23. *)
C25_MasterLifePathScoresAtMost23 ==
    (ScoreCall /\ ScoreCallProfile.life_path \in {11, 22, 33}) =>
        /\ ~HasReason(ret, 1)
        /\ ~HasReason(ret, 5)
        /\ ret.score <= 23

(* life path 11 (2000-01-08) with rules 2, 3, 4 and 6: the score is 23 *)
C25_Witness ==
    /\ ScoreCall
    /\ ScoreCallProfile.life_path = 11
    /\ ret.score = 23

(* the reported name of the player with the strictly higher reported score *)
HigherName ==
    IF result.player1.score > result.player2.score
    THEN result.player1.name ELSE result.player2.name

(* C26: a STRONG or MODERATE verdict has two different scores and its
   recommendation names the display name of the player with the higher
   score; a tie never gets a "Strong bet on" or "Moderate bet on". *)
C26_BetOnlyOnTheHigherScore ==
    Returned =>
        /\ result.confidence \in {"STRONG", "MODERATE"} =>
              /\ result.player1.score # result.player2.score
              /\ result.recommendation.fmt \in
                     {"Strong bet on {}", "Moderate bet on {}"}
              /\ result.recommendation.args = <<HigherName>>
        /\ result.player1.score = result.player2.score =>
              /\ result.confidence = "LOW"
              /\ result.recommendation = FString("Avoid / No bet", <<>>)

(* a strong bet on player 2, whose name differs from player 1's *)
C26_Witness ==
    /\ Returned
    /\ result.confidence = "STRONG"
    /\ result.player2.score > result.player1.score
    /\ result.player1.name # result.player2.name
    /\ result.recommendation = FString("Strong bet on {}", <<result.player2.name>>)

ReturnedSwapped == pc = "returned" /\ call = "swapped"

(* C27: with player 1 and player 2 exchanged and the same match date, the
   verdict has the two player blocks exchanged and the same
   winner_prediction, confidence, score_difference, recommendation, bet_size
   and analysis_summary. *)
C27_VerdictSymmetricInThePlayers ==
    ReturnedSwapped =>
        /\ result.player1 = ret.player2
        /\ result.player2 = ret.player1
        /\ result.winner_prediction = ret.winner_prediction
        /\ result.confidence = ret.confidence
        /\ result.score_difference = ret.score_difference
        /\ result.recommendation = ret.recommendation
        /\ result.bet_size = ret.bet_size
        /\ result.analysis_summary = ret.analysis_summary

(* player 1 of the first call wins it by 20 or more and wins the second
   call as player 2 *)
C27_Witness ==
    /\ ReturnedSwapped
    /\ ret.player1.score >= ret.player2.score + 20
    /\ ret.player1.name # ret.player2.name
    /\ result.winner_prediction = result.player2.name
    /\ result.player2.name = ret.player1.name

(* C28: with demo requests of one client IP served concurrently, at most 5
   of them are allowed within one reset window of that IP. *)
C28_AtMostFiveAllowedConcurrently ==
    demo_allowed[DemoClient] <= 5

(* C29: after any sequence of signup, create_api_key, revoke_api_key,
   delete_api_key and set_user_tier, every user has at most as many active
   API keys as the key limit of the user's current tier allows (free 1,
   starter 3, pro without limit). *)
C29_ActiveKeysWithinTierLimit ==
    \A u \in DOMAIN users :
        LET key_limit == TIER_API_KEY_LIMITS[users[u].plan_tier]
        IN  key_limit = <<>> \/ active_keys_count(u) <= key_limit[1]

====
